---- MODULE Spec2Model ----
(***************************************************************************)
(* A model of transaction_analyzer.py: the normalisation pass              *)
(* TransactionAnalyzer._preprocess_data over a pandas DataFrame, and the   *)
(* report pipeline generate_report with its two text-generation calls.     *)
(*                                                                         *)
(* A DataFrame is a record [cols, rows]: the column labels in order        *)
(* (pandas allows duplicates) and the rows, each a record of its index     *)
(* label id (which survives dropna) and its cells, aligned with cols.      *)
(* Text is a sequence of one-character strings, so that str.replace,       *)
(* str.strip, strptime and the numeric parser are computed on characters.  *)
(* Amounts are counted in tenths (1.5 is 15): the raw texts of the model   *)
(* carry at most one decimal digit.                                        *)
(***************************************************************************)
EXTENDS Integers, Sequences, FiniteSets, TLC

(***************************************************************************)
(* Bounds of the model.                                                    *)
(***************************************************************************)
\* rows of a raw ledger in the normalisation specification
MaxRows == 2
\* rows of a raw ledger in the report specification
ReportMaxRows == 1

(***************************************************************************)
(* COLUMN_CONFIG and the labels of a raw CSV header.                       *)
(***************************************************************************)
DATE == <<"Transaction Date">>
DEBIT == <<"Debit Amount">>
CREDIT == <<"Credit Amount">>
DESCRIPTION == <<"Transaction Description">>

\* a header cell written with a blank before or after the name
PadLeft(label) == <<" ">> \o label

RECURSIVE LStrip(_)
LStrip(s) == IF s # <<>> /\ Head(s) = " " THEN LStrip(Tail(s)) ELSE s

RECURSIVE RStrip(_)
RStrip(s) ==
    IF s # <<>> /\ s[Len(s)] = " " THEN RStrip(SubSeq(s, 1, Len(s) - 1)) ELSE s

\* str.strip() of one column label
StripLabel(label) == RStrip(LStrip(label))

(***************************************************************************)
(* Cells.                                                                  *)
(***************************************************************************)
NaN == [k |-> "nan", n |-> 0, s |-> <<>>]
NaT == [k |-> "nat", n |-> 0, s |-> <<>>]
Num(v) == [k |-> "num", n |-> v, s |-> <<>>]
Text(t) == [k |-> "text", n |-> 0, s |-> t]
Timestamp(d) == [k |-> "date", n |-> d, s |-> <<>>]

\* Series.isna() of one cell
IsNa(c) == c.k \in {"nan", "nat"}

(***************************************************************************)
(* Characters and decimal numerals.                                        *)
(***************************************************************************)
Digits == <<"0", "1", "2", "3", "4", "5", "6", "7", "8", "9">>

IsDigit(ch) == \E i \in 1..10 : Digits[i] = ch

DigitValue(ch) == (CHOOSE i \in 1..10 : Digits[i] = ch) - 1

IsDigits(s) == s # <<>> /\ \A i \in 1..Len(s) : IsDigit(s[i])

RECURSIVE DigitsValue(_)
DigitsValue(s) ==
    IF s = <<>> THEN 0
    ELSE 10 * DigitsValue(SubSeq(s, 1, Len(s) - 1)) + DigitValue(s[Len(s)])

RECURSIVE NatToDigits(_)
NatToDigits(v) ==
    IF v < 10 THEN <<Digits[v + 1]>>
    ELSE NatToDigits(v \div 10) \o <<Digits[(v % 10) + 1]>>

(***************************************************************************)
(* pd.to_datetime(..., format='%d/%m/%Y', errors='coerce')                 *)
(***************************************************************************)
IsLeap(y) == (y % 4 = 0 /\ y % 100 # 0) \/ y % 400 = 0

DaysInMonth(m, y) ==
    IF m = 2 THEN (IF IsLeap(y) THEN 29 ELSE 28)
    ELSE IF m \in {4, 6, 9, 11} THEN 30 ELSE 31

SlashPositions(s) == {i \in 1..Len(s) : s[i] = "/"}

\* strptime with %d/%m/%Y: one or two digits, one or two digits, four digits
ParseDMY(s) ==
    LET sl == SlashPositions(s)
    IN  IF Cardinality(sl) # 2 THEN NaT
        ELSE
          LET a == CHOOSE i \in sl : \A j \in sl : i <= j
              b == CHOOSE i \in sl : \A j \in sl : j <= i
              dd == SubSeq(s, 1, a - 1)
              mm == SubSeq(s, a + 1, b - 1)
              yy == SubSeq(s, b + 1, Len(s))
          IN  IF /\ IsDigits(dd) /\ Len(dd) <= 2
                 /\ IsDigits(mm) /\ Len(mm) <= 2
                 /\ IsDigits(yy) /\ Len(yy) = 4
              THEN
                LET d == DigitsValue(dd)
                    m == DigitsValue(mm)
                    y == DigitsValue(yy)
                IN  IF /\ y >= 1
                       /\ m \in 1..12
                       /\ d >= 1
                       /\ d <= DaysInMonth(m, y)
                    THEN Timestamp(y * 10000 + m * 100 + d)
                    ELSE NaT
              ELSE NaT

\* one element of the date column; a value that is already a Timestamp is kept
ToDatetime(c) ==
    IF c.k = "date" THEN c
    ELSE IF c.k = "text" THEN ParseDMY(c.s)
    ELSE NaT

(***************************************************************************)
(* The amount conversions of lines 127-145.                                *)
(***************************************************************************)
\* str(float): sign, integer part, point, one decimal digit (amounts in tenths)
FormatFloat(v) ==
    LET a == IF v < 0 THEN 0 - v ELSE v
    IN  (IF v < 0 THEN <<"-">> ELSE <<>>)
            \o NatToDigits(a \div 10) \o <<".">> \o <<Digits[(a % 10) + 1]>>

\* Series.astype(str) of one element
AsStr(c) ==
    IF c.k = "text" THEN c.s
    ELSE IF c.k = "num" THEN FormatFloat(c.n)
    ELSE <<"n", "a", "n">>

\* str.replace(ch, '', regex=False)
RemoveChar(s, ch) == SelectSeq(s, LAMBDA x : x # ch)

\* the three replacements: currency symbol, thousands separator, blank
CleanText(s) == RemoveChar(RemoveChar(RemoveChar(s, "£"), ","), " ")

PointPositions(s) == {i \in 1..Len(s) : s[i] = "."}

\* an unsigned decimal literal: digits, at most one point, at least one digit
ParseUnsigned(s) ==
    LET pp == PointPositions(s)
    IN  IF Cardinality(pp) = 0
        THEN (IF IsDigits(s) THEN Num(10 * DigitsValue(s)) ELSE NaN)
        ELSE IF Cardinality(pp) > 1 THEN NaN
        ELSE
          LET p == CHOOSE i \in pp : TRUE
              ip == SubSeq(s, 1, p - 1)
              fp == SubSeq(s, p + 1, Len(s))
          IN  IF /\ ip = <<>> \/ IsDigits(ip)
                 /\ fp = <<>> \/ IsDigits(fp)
                 /\ ip # <<>> \/ fp # <<>>
                 /\ Len(fp) <= 1
              THEN Num(10 * DigitsValue(ip) + DigitsValue(fp))
              ELSE NaN

\* pd.to_numeric(..., errors='coerce') of one string
ToNumeric(s) ==
    IF s = <<>> THEN NaN
    ELSE IF Head(s) = "-"
    THEN LET u == ParseUnsigned(Tail(s))
         IN  IF u.k = "num" THEN Num(0 - u.n) ELSE NaN
    ELSE IF Head(s) = "+" THEN ParseUnsigned(Tail(s))
    ELSE ParseUnsigned(s)

\* a plausible slip: a sentinel of -1 instead of 0 for an unparsable amount
FillNaMinusOne(c) == IF IsNa(c) THEN Num(0 - 10) ELSE c

\* Series.fillna(0) of one element
FillNa(c) == IF IsNa(c) THEN Num(0) ELSE c

\* lines 131-145 on one element of an amount column
ConvertAmount(c) == FillNa(ToNumeric(CleanText(AsStr(c))))

(***************************************************************************)
(* DataFrame operations used by _preprocess_data.                          *)
(***************************************************************************)
\* label in self.df.columns
HasCol(df, label) == \E p \in 1..Len(df.cols) : df.cols[p] = label

\* the positions self.df[label] selects: one is a Series, several a DataFrame
ColPositions(df, label) == {p \in 1..Len(df.cols) : df.cols[p] = label}

ColPos(df, label) == CHOOSE p \in ColPositions(df, label) : TRUE

\* self.df[label] = value, for a label the frame has: every column carrying
\* the label is overwritten
SetColumn(df, label, value) ==
    [df EXCEPT !.rows =
        [j \in 1..Len(df.rows) |->
            [df.rows[j] EXCEPT !.cells =
                [p \in 1..Len(df.cols) |->
                    IF df.cols[p] = label THEN value
                    ELSE df.rows[j].cells[p]]]]]

\* self.df[label] = 0.0
ZeroColumn(df, label) == SetColumn(df, label, Num(0))

\* lines 99-103: the date column parsed element by element
DatetimeColumn(df, label) ==
    [df EXCEPT !.rows =
        [j \in 1..Len(df.rows) |->
            [df.rows[j] EXCEPT !.cells =
                [p \in 1..Len(df.cols) |->
                    IF df.cols[p] = label THEN ToDatetime(df.rows[j].cells[p])
                    ELSE df.rows[j].cells[p]]]]]

\* lines 127-145: the amount column converted element by element
NumericColumn(df, label) ==
    [df EXCEPT !.rows =
        [j \in 1..Len(df.rows) |->
            [df.rows[j] EXCEPT !.cells =
                [p \in 1..Len(df.cols) |->
                    IF df.cols[p] = label THEN ConvertAmount(df.rows[j].cells[p])
                    ELSE df.rows[j].cells[p]]]]]

\* a plausible slip: the fallback leaves the half-converted column as it is
KeepColumn(df, label) == df

\* line 149, the fallback of the per-column handler
FallbackColumn(df, label) == ZeroColumn(df, label)

\* a plausible slip: pd.Series(index=...) without the 0.0 gives a NaN column
NewNaNColumn(df, label) ==
    [cols |-> Append(df.cols, label),
     rows |-> [j \in 1..Len(df.rows) |->
                 [df.rows[j] EXCEPT !.cells = Append(@, NaN)]]]

\* line 115: self.df[col] = pd.Series(0.0, index=self.df.index), col absent
NewZeroColumn(df, label) ==
    [cols |-> Append(df.cols, label),
     rows |-> [j \in 1..Len(df.rows) |->
                 [df.rows[j] EXCEPT !.cells = Append(@, Num(0))]]]

\* a plausible slip: dropna() without subset drops a row with any missing cell
DropNaAny(df, label) ==
    [df EXCEPT !.rows =
        SelectSeq(df.rows,
                  LAMBDA r : \A p \in 1..Len(df.cols) : ~IsNa(r.cells[p]))]

\* line 108: self.df.dropna(subset=[label])
DropNa(df, label) ==
    [df EXCEPT !.rows =
        SelectSeq(df.rows, LAMBDA r : ~IsNa(r.cells[ColPos(df, label)]))]

\* self.df[label].isna().any()
AnyNa(df, label) ==
    \E j \in 1..Len(df.rows) : IsNa(df.rows[j].cells[ColPos(df, label)])

\* self.df[label].isna().all(), true of a column without rows
AllNa(df, label) ==
    \A j \in 1..Len(df.rows) : IsNa(df.rows[j].cells[ColPos(df, label)])

\* line 152: self.df.columns = self.df.columns.str.strip()
StripColumns(df) ==
    [df EXCEPT !.cols = [p \in 1..Len(df.cols) |-> StripLabel(df.cols[p])]]

\* self.df.empty
IsEmpty(df) == Len(df.rows) = 0 \/ Len(df.cols) = 0

(***************************************************************************)
(* _preprocess_data, lines 88-157.  An unexpected exception of a pandas    *)
(* call is an input: fault names the amount column and the step at which   *)
(* it is raised, if that step is executed.                                 *)
(***************************************************************************)
AmountCols == <<DEBIT, CREDIT>>

\* steps inside the per-column try of lines 125-145
InnerSteps == {"cleanup", "parse", "fill"}

\* steps of the loop body before that try, lines 113-122
OuterSteps == {"absent_check", "allmissing_check"}

NoFault == [col |-> <<>>, at |-> "none"]

Faults ==
    {NoFault} \cup
    {[col |-> c, at |-> a] : c \in {DEBIT, CREDIT}, a \in InnerSteps \cup OuterSteps}

NoExc == [col |-> <<>>, at |-> "none", exc |-> "none"]

\* lines 97-108
ParseDates(df) ==
    IF HasCol(df, DATE)
    THEN LET parsed == DatetimeColumn(df, DATE)
         IN  IF AnyNa(parsed, DATE) THEN DropNa(parsed, DATE) ELSE parsed
    ELSE df

\* the body of the loop of lines 111-149 for one column.  st carries the
\* frame, the exception that left the loop (if any), the faults that were
\* raised and caught by the per-column handler, and the columns visited.
ProcessColumn(st, col, fault) ==
    IF st.escaped.exc # "none" THEN st
    ELSE
      LET df == st.df
          here == [st EXCEPT !.visited = Append(@, col)]
          Raise(at, exc) ==
              [here EXCEPT !.escaped = [col |-> col, at |-> at, exc |-> exc]]
          Hit(at) == fault.col = col /\ fault.at = at
      IN  IF Hit("absent_check") THEN Raise("absent_check", "Unexpected")
          ELSE IF ~HasCol(df, col)
          THEN [here EXCEPT !.df = NewZeroColumn(df, col)]
          ELSE IF Hit("allmissing_check")
          THEN Raise("allmissing_check", "Unexpected")
          ELSE IF Cardinality(ColPositions(df, col)) > 1
          \* isna().all() of a DataFrame is a Series: its truth value is ambiguous
          THEN Raise("allmissing_check", "ValueError")
          ELSE IF AllNa(df, col)
          THEN [here EXCEPT !.df = ZeroColumn(df, col)]
          ELSE IF fault.col = col /\ fault.at \in InnerSteps
          THEN [here EXCEPT !.df = FallbackColumn(df, col),
                            !.caught = Append(@, fault)]
          ELSE [here EXCEPT !.df = NumericColumn(df, col)]

\* the whole method: the frame it leaves in self.df, and how it ended
PreprocessData(df, fault) ==
    LET st0 == [df |-> ParseDates(df), escaped |-> NoExc,
                caught |-> <<>>, visited |-> <<>>]
        st1 == ProcessColumn(st0, AmountCols[1], fault)
        st2 == ProcessColumn(st1, AmountCols[2], fault)
        End(st) ==
            IF st.escaped.exc # "none"
            THEN st @@ [ok |-> FALSE]
            ELSE [st EXCEPT !.df = StripColumns(st.df)] @@ [ok |-> TRUE]
    IN  End(st2)

(***************************************************************************)
(* Raw ledgers, as pd.read_csv leaves them in self.df (line 70).           *)
(***************************************************************************)
ValidDate == Text(<<"2", "4", "/", "0", "8", "/", "2", "0", "2", "5">>)
IsoDate == Text(<<"2", "0", "2", "5", "-", "0", "8", "-", "2", "4">>)

Pounds == Text(<<"£", "1", ",", "2", "3", "4", ".", "5">>)
Spaced == Text(<<" ", "2", ",", "0", "0", "0", " ">>)
Junk == Text(<<"a", "b", "c">>)
Minus == Text(<<"-", "3">>)

Rent == Text(<<"r", "e", "n", "t">>)

DateValues == {ValidDate, IsoDate}
DebitValues == {NaN, Pounds, Minus, Junk}
CreditValues == {Spaced, Num(25)}
DescriptionValues == {Rent}

\* how the header spells one logical column: not at all, exactly, or padded
Spellings(label) ==
    IF label = CREDIT THEN {<<>>, label} ELSE {<<>>, label, PadLeft(label)}

\* headers in which every column present is spelt exactly
ExactSpellings(label) == {<<>>, label}

\* the logical column a raw label stands for
Logical(label) == StripLabel(label)

ValuesOf(label) ==
    IF Logical(label) = DATE THEN DateValues
    ELSE IF Logical(label) = DEBIT THEN DebitValues
    ELSE IF Logical(label) = CREDIT THEN CreditValues
    ELSE DescriptionValues

\* every header has the description column: read_csv refuses a file without
\* columns (EmptyDataError)
Headers(exact) ==
    {SelectSeq(<<d, DESCRIPTION, a, c>>, LAMBDA l : l # <<>>) :
        d \in IF exact THEN ExactSpellings(DATE) ELSE Spellings(DATE),
        a \in IF exact THEN ExactSpellings(DEBIT) ELSE Spellings(DEBIT),
        c \in IF exact THEN ExactSpellings(CREDIT) ELSE Spellings(CREDIT)}

\* the rows a header admits: one value per column
RECURSIVE RowsOf(_)
RowsOf(cols) ==
    IF cols = <<>> THEN {<<>>}
    ELSE {<<v>> \o rest : v \in ValuesOf(Head(cols)), rest \in RowsOf(Tail(cols))}

\* the sequences of n rows
RECURSIVE Bodies(_, _)
Bodies(rowset, n) ==
    IF n = 0 THEN {<<>>}
    ELSE {Append(body, [id |-> n, cells |-> cells]) :
              body \in Bodies(rowset, n - 1), cells \in rowset}

\* raw is a frame read_csv can return: a header, and at most maxRows rows
\* indexed 1..n
IsRawLedger(frame, exact, maxRows) ==
    \E cols \in Headers(exact) : \E n \in 0..maxRows :
        \E body \in Bodies(RowsOf(cols), n) :
            frame = [cols |-> cols, rows |-> body]

(***************************************************************************)
(* State.                                                                  *)
(***************************************************************************)
VARIABLES
    raw,        \* the ledger as read_csv returned it
    df,         \* self.df
    runs,       \* how each call of _preprocess_data ended, and the frame it left
    pc,         \* generate_report: index of the next statement, 0 before the call
    service,    \* what the generation service does at each call
    doc,        \* the sections written to the report file, in order
    analysis,   \* generate_report's local analysis
    plots,      \* generate_report's local plots
    insights,   \* generate_report's local insights
    evaluation, \* generate_report's local evaluation
    judge,      \* the activation of get_judge_evaluation
    outcome     \* how generate_report ended

normVars == <<raw, df, runs>>
reportVars == <<pc, service, doc, analysis, plots, insights, evaluation, judge, outcome>>
vars == <<raw, df, runs, pc, service, doc, analysis, plots, insights, evaluation,
          judge, outcome>>

None == [kind |-> "none", by |-> "none", attempt |-> 0, about |-> "none"]

IdleJudge == [result |-> "idle", attempt |-> 0, log |-> <<>>, slept |-> 0,
              insights |-> None, analysis |-> "none"]

IdleService == [llm |-> "ok", judge |-> <<>>]

ReportIdle ==
    /\ pc = 0
    /\ service = IdleService
    /\ doc = <<>>
    /\ analysis = "none"
    /\ plots = "none"
    /\ insights = None
    /\ evaluation = None
    /\ judge = IdleJudge
    /\ outcome = "none"

(***************************************************************************)
(* The normalisation specification: load_data has read the file, and       *)
(* _preprocess_data runs on self.df (a second time for idempotence).       *)
(***************************************************************************)
Init ==
    /\ IsRawLedger(raw, FALSE, MaxRows)
    /\ df = raw
    /\ runs = <<>>
    /\ ReportIdle

\* how a call of _preprocess_data ended, and the frame it left in self.df
RunRecord(r) ==
    [ok |-> r.ok, escaped |-> r.escaped, caught |-> r.caught,
     visited |-> r.visited, df |-> r.df]

\* load_data's call of _preprocess_data (line 79)
Preprocess(fault) ==
    /\ runs = <<>>
    /\ \E r \in {PreprocessData(df, fault)} :
           /\ df' = r.df
           /\ runs' = Append(runs, RunRecord(r))
    /\ UNCHANGED <<raw, reportVars>>

\* _preprocess_data called once more on the frame the first call left
PreprocessAgain ==
    /\ Len(runs) = 1
    /\ runs[1].ok
    /\ \E r \in {PreprocessData(df, NoFault)} :
           /\ df' = r.df
           /\ runs' = Append(runs, RunRecord(r))
    /\ UNCHANGED <<raw, reportVars>>

Next ==
    \/ \E fault \in Faults : Preprocess(fault)
    \/ PreprocessAgain

Spec == Init /\ [][Next]_vars

(***************************************************************************)
(* The report pipeline: generate_report (lines 500-530) and the calls it   *)
(* makes.  The generation service is an input: service.llm is what it does *)
(* at the narrative call, service.judge[i] what it does at the i-th        *)
(* attempt of the judge call.                                              *)
(*   "ok"         the probe and the generation succeed                     *)
(*   "down"       the probe client.list() raises                           *)
(*   "gen_fail"   the probe succeeds and client.generate raises            *)
(*   "malformed"  generate returns an object without a response attribute  *)
(***************************************************************************)
max_retries == 3
retry_delay == 5

ServiceOutcomes == {"ok", "down", "gen_fail", "malformed"}

Services == [llm : ServiceOutcomes, judge : [1..max_retries -> ServiceOutcomes]]

\* a plausible change: the import list with the time module added
ImportedNamesWithTime ==
    {"pd", "plt", "sns", "os", "datetime", "ollama", "load_dotenv",
     "Optional", "Dict", "Any", "TextIO", "time"}

\* the names the module binds at import (lines 1-8)
ImportedNames ==
    {"pd", "plt", "sns", "os", "datetime", "ollama", "load_dotenv",
     "Optional", "Dict", "Any", "TextIO"}

\* the texts the two generation calls can return
NoDataText == [kind |-> "no_data", by |-> "llm", attempt |-> 0, about |-> "none"]
Unavailable == [kind |-> "unavailable", by |-> "none", attempt |-> 0, about |-> "none"]
ErrorText(who) == [kind |-> "error", by |-> who, attempt |-> 0, about |-> "none"]
Generated(who, n, about) ==
    [kind |-> "generated", by |-> who, attempt |-> n, about |-> about]

\* _check_ollama_connection, lines 209-226
CheckOllamaConnection(o) == o # "down"

\* a plausible change: the date range is read only if the date column exists
AnalyzeStructureGuarded(frame) ==
    IF IsEmpty(frame) THEN "no_data" ELSE "summary"

\* analyze_structure, lines 228-269
AnalyzeStructure(frame) ==
    IF IsEmpty(frame) THEN "no_data"
    ELSE IF ~HasCol(frame, DATE) THEN "KeyError"
    ELSE "summary"

\* visualize_transactions, lines 271-326
VisualizeTransactions(frame) ==
    IF IsEmpty(frame) THEN "no_data"
    ELSE IF ~HasCol(frame, DATE) THEN "Exception"
    ELSE "charts"

\* get_llm_insights, lines 328-370
GetLlmInsights(frame, o) ==
    IF IsEmpty(frame) THEN NoDataText
    ELSE IF ~CheckOllamaConnection(o) THEN Unavailable
    ELSE IF o = "ok" /\ HasCol(frame, DATE) THEN Generated("llm", 1, "summary")
    ELSE ErrorText("llm")

\* a plausible slip: the visualizations section moved before the structure one
StatementsReordered ==
    <<"write_header", "analyze_structure", "visualize", "write_visualizations",
      "write_structure", "get_insights", "write_insights", "get_judge",
      "write_judge", "return">>

\* the statements of generate_report's with block, lines 512-527
Statements ==
    <<"write_header", "analyze_structure", "write_structure", "visualize",
      "write_visualizations", "get_insights", "write_insights", "get_judge",
      "write_judge", "return">>

At(stmt) ==
    /\ outcome = "none"
    /\ pc \in 1..Len(Statements)
    /\ Statements[pc] = stmt

Section(name, body) == [section |-> name, body |-> body]

\* the state after construction: the file is read and normalised
ReportInit ==
    /\ IsRawLedger(raw, TRUE, ReportMaxRows)
    /\ \E r \in {PreprocessData(raw, NoFault)} :
           /\ df = r.df
           /\ runs = <<RunRecord(r)>>
    /\ service \in Services
    /\ pc = 1
    /\ doc = <<>>
    /\ analysis = "none"
    /\ plots = "none"
    /\ insights = None
    /\ evaluation = None
    /\ judge = IdleJudge
    /\ outcome = "none"

\* _write_report_header, lines 426-434
WriteReportHeader ==
    /\ At("write_header")
    /\ doc' = Append(doc, Section("header", "timestamp"))
    /\ pc' = pc + 1
    /\ UNCHANGED <<normVars, service, analysis, plots, insights, evaluation,
                   judge, outcome>>

\* line 514; an exception leaves generate_report through line 530
CallAnalyzeStructure ==
    /\ At("analyze_structure")
    /\ \E a \in {AnalyzeStructure(df)} :
           IF a = "KeyError"
           THEN outcome' = "raised" /\ UNCHANGED <<analysis, pc>>
           ELSE analysis' = a /\ pc' = pc + 1 /\ UNCHANGED outcome
    /\ UNCHANGED <<normVars, service, doc, plots, insights, evaluation, judge>>

\* _write_structure_analysis, lines 436-458
WriteStructureAnalysis ==
    /\ At("write_structure")
    /\ doc' = Append(doc, Section("structure",
                 IF analysis = "no_data" THEN "warning" ELSE "summary"))
    /\ pc' = pc + 1
    /\ UNCHANGED <<normVars, service, analysis, plots, insights, evaluation,
                   judge, outcome>>

\* line 517
CallVisualizeTransactions ==
    /\ At("visualize")
    /\ \E v \in {VisualizeTransactions(df)} :
           IF v = "Exception"
           THEN outcome' = "raised" /\ UNCHANGED <<plots, pc>>
           ELSE plots' = v /\ pc' = pc + 1 /\ UNCHANGED outcome
    /\ UNCHANGED <<normVars, service, doc, analysis, insights, evaluation, judge>>

\* _write_visualizations, lines 460-476
WriteVisualizations ==
    /\ At("write_visualizations")
    /\ doc' = Append(doc, Section("visualizations",
                 IF plots = "no_data" THEN "warning" ELSE "charts"))
    /\ pc' = pc + 1
    /\ UNCHANGED <<normVars, service, analysis, plots, insights, evaluation,
                   judge, outcome>>

\* line 520
CallGetLlmInsights ==
    /\ At("get_insights")
    /\ insights' = GetLlmInsights(df, service.llm)
    /\ pc' = pc + 1
    /\ UNCHANGED <<normVars, service, doc, analysis, plots, evaluation, judge,
                   outcome>>

\* _write_llm_insights, lines 478-487
WriteLlmInsights ==
    /\ At("write_insights")
    /\ doc' = Append(doc, Section("insights", insights.kind))
    /\ pc' = pc + 1
    /\ UNCHANGED <<normVars, service, analysis, plots, insights, evaluation,
                   judge, outcome>>

\* line 523: get_judge_evaluation is entered with the locals as arguments
CallGetJudgeEvaluation ==
    /\ At("get_judge")
    /\ judge.result = "idle"
    /\ judge' = [judge EXCEPT !.result = "running", !.insights = insights,
                              !.analysis = analysis]
    /\ UNCHANGED <<normVars, service, doc, analysis, plots, insights, evaluation,
                   pc, outcome>>

\* one iteration of the loop of get_judge_evaluation, lines 386-424
JudgeAttempt ==
    /\ At("get_judge")
    /\ judge.result = "running"
    /\ judge.attempt < max_retries
    /\ LET o == service.judge[judge.attempt + 1]
           tried == [judge EXCEPT !.log = Append(@, o)]
           Return(text) ==
               /\ evaluation' = text
               /\ judge' = [tried EXCEPT !.result = "returned"]
               /\ pc' = pc + 1
               /\ UNCHANGED outcome
       IN  IF ~CheckOllamaConnection(o) THEN Return(Unavailable)
           ELSE IF o = "ok"
           THEN Return(Generated("judge", judge.attempt + 1, judge.insights.kind))
           \* client.generate or response.response raised: the handler of line 417
           ELSE IF judge.attempt < max_retries - 1
           THEN IF "time" \in ImportedNames
                THEN /\ judge' = [tried EXCEPT !.attempt = @ + 1,
                                               !.slept = @ + retry_delay]
                     /\ UNCHANGED <<evaluation, pc, outcome>>
                \* line 421 raises NameError inside the handler
                ELSE /\ judge' = [tried EXCEPT !.result = "raised"]
                     /\ outcome' = "raised"
                     /\ UNCHANGED <<evaluation, pc>>
           ELSE Return(ErrorText("judge"))
    /\ UNCHANGED <<normVars, service, doc, analysis, plots, insights>>

\* _write_judge_evaluation, lines 489-498
WriteJudgeEvaluation ==
    /\ At("write_judge")
    /\ doc' = Append(doc, Section("review", evaluation.kind))
    /\ pc' = pc + 1
    /\ UNCHANGED <<normVars, service, analysis, plots, insights, evaluation,
                   judge, outcome>>

\* lines 526-527
ReturnReportPath ==
    /\ At("return")
    /\ outcome' = "returned"
    /\ UNCHANGED <<normVars, service, doc, analysis, plots, insights, evaluation,
                   judge, pc>>

ReportNext ==
    \/ WriteReportHeader
    \/ CallAnalyzeStructure
    \/ WriteStructureAnalysis
    \/ CallVisualizeTransactions
    \/ WriteVisualizations
    \/ CallGetLlmInsights
    \/ WriteLlmInsights
    \/ CallGetJudgeEvaluation
    \/ JudgeAttempt
    \/ WriteJudgeEvaluation
    \/ ReturnReportPath

ReportSpec == ReportInit /\ [][ReportNext]_vars

(***************************************************************************)
(* Properties of the normalisation pass.                                   *)
(***************************************************************************)
\* the first call of _preprocess_data has completed without raising
Normalized == Len(runs) >= 1 /\ runs[1].ok

\* the ledger it produced
Ledger == runs[1].df

AmountPositions(frame) ==
    {p \in 1..Len(frame.cols) : frame.cols[p] \in {DEBIT, CREDIT}}

RowNumbers(frame) == 1..Len(frame.rows)

RowIds(frame) == {frame.rows[j].id : j \in RowNumbers(frame)}

\* the raw value a cell of the normalised ledger was computed from, if any
HasRawCell(p) == p <= Len(raw.cols)
RawCell(j, p) == raw.rows[Ledger.rows[j].id].cells[p]

CarriesMinus(c) ==
    \/ c.k = "num" /\ c.n < 0
    \/ c.k = "text" /\ \E i \in 1..Len(c.s) : c.s[i] = "-"

\* the rows of the raw ledger whose date parses as day/month/year
ParsableRows ==
    {j \in RowNumbers(raw) :
        ToDatetime(raw.rows[j].cells[ColPos(raw, DATE)]).k = "date"}

\* the rows the date stage must keep
KeptRows == IF HasCol(raw, DATE) THEN ParsableRows ELSE RowNumbers(raw)

\* every cell under the label is the number zero, and the label is there
AllZero(frame, label) ==
    /\ HasCol(frame, label)
    /\ \A j \in RowNumbers(frame) : \A p \in ColPositions(frame, label) :
           frame.rows[j].cells[p] = Num(0)

\* some column under the label holds numbers only
SomeNumericColumn(frame, label) ==
    \E p \in ColPositions(frame, label) :
        \A j \in RowNumbers(frame) : frame.rows[j].cells[p].k = "num"

\* C1 as stated: in every normalised ledger no debit or credit amount is
\* negative, whatever the raw value was (that the values are numbers at all
\* is claim C2)
C1_AmountsNonNegative ==
    Normalized =>
        \A j \in RowNumbers(Ledger) : \A p \in AmountPositions(Ledger) :
            Ledger.rows[j].cells[p].k = "num" => Ledger.rows[j].cells[p].n >= 0

\* C1 amended: a debit or credit amount of the normalised ledger is negative
\* only if the raw value it was parsed from carried a minus sign; every other
\* amount, and every amount of a column the pass created, is >= 0
C1_NegativeOnlyFromMinusSign ==
    Normalized =>
        \A j \in RowNumbers(Ledger) : \A p \in AmountPositions(Ledger) :
            (Ledger.rows[j].cells[p].k = "num" /\ Ledger.rows[j].cells[p].n < 0)
                => (HasRawCell(p) /\ CarriesMinus(RawCell(j, p)))

\* a raw "-3" was normalised and is still negative
C1_Witness ==
    /\ Normalized
    /\ \E j \in RowNumbers(Ledger) : \E p \in AmountPositions(Ledger) :
           /\ Ledger.rows[j].cells[p] = Num(0 - 30)
           /\ RawCell(j, p) = Minus

\* C2 as stated: in every normalised ledger the debit and the credit column
\* are present and every cell under either label is a number
C2_AmountsPresentAndNumeric ==
    Normalized =>
        /\ HasCol(Ledger, DEBIT)
        /\ HasCol(Ledger, CREDIT)
        /\ \A j \in RowNumbers(Ledger) : \A p \in AmountPositions(Ledger) :
               Ledger.rows[j].cells[p].k = "num"

C4_Idempotent ==
    Len(runs) = 2 => (runs[2].ok /\ runs[2].df = runs[1].df)

\* the columns the pass created: the amount columns absent from the raw header
CreatedColumns == {c \in {DEBIT, CREDIT} : ~HasCol(raw, c)}

\* the position at which the pass appended the column it created
CreatedPositions(c) ==
    {p \in ColPositions(Ledger, c) : ~HasRawCell(p)}

CreatedAsZero(c) ==
    /\ Cardinality(CreatedPositions(c)) = 1
    /\ \A p \in CreatedPositions(c) : \A j \in RowNumbers(Ledger) :
           Ledger.rows[j].cells[p] = Num(0)

\* C8 as stated: an absent amount column is created as zero in every row and
\* the normalised ledger has as many rows as the raw ledger
C8_CreatedColumnSameRowCount ==
    (Normalized /\ CreatedColumns # {}) =>
        /\ \A c \in CreatedColumns : CreatedAsZero(c)
        /\ Len(Ledger.rows) = Len(raw.rows)

\* C8 amended: an absent amount column is created as zero in every row of the
\* normalised ledger, which has as many rows as the raw ledger has rows
\* that survive the date stage
C8_CreatedColumnZeroPerKeptRow ==
    (Normalized /\ CreatedColumns # {}) =>
        /\ \A c \in CreatedColumns : CreatedAsZero(c)
        /\ Len(Ledger.rows) = Cardinality(KeptRows)

\* the debit column was created for a ledger that lost a row to its date
C8_Witness ==
    /\ Normalized
    /\ DEBIT \in CreatedColumns
    /\ Len(Ledger.rows) = 1
    /\ Len(raw.rows) = 2
    /\ CreatedAsZero(DEBIT)

\* the column an exception of the run was raised in, caught or not
RaisedIn(r) ==
    (IF r.escaped.exc # "none" THEN {r.escaped.col} ELSE {})
        \cup {r.caught[i].col : i \in 1..Len(r.caught)}

\* C9 as stated: whatever step of a column's processing raises, the column
\* ends as zero, the run completes and both columns are processed
C9_AnyColumnExceptionRecovered ==
    \A i \in 1..Len(runs) : \A c \in RaisedIn(runs[i]) :
        /\ runs[i].ok
        /\ AllZero(runs[i].df, c)
        /\ runs[i].visited = AmountCols

\* C9 amended: an exception of the clean-up, the parse or the fill is caught:
\* the column ends as zero, the run completes and the other column is
\* processed; an exception that leaves the run was raised by the absent check
\* or the all-missing check
C9_InnerExceptionRecovered ==
    \A i \in 1..Len(runs) :
        /\ \A k \in 1..Len(runs[i].caught) :
               /\ runs[i].caught[k].at \in InnerSteps
               /\ runs[i].ok
               /\ AllZero(runs[i].df, runs[i].caught[k].col)
               /\ runs[i].visited = AmountCols
               /\ \A o \in {DEBIT, CREDIT} \ {runs[i].caught[k].col} :
                      SomeNumericColumn(runs[i].df, o)
        /\ runs[i].escaped.exc # "none" =>
               (~runs[i].ok /\ runs[i].escaped.at \in OuterSteps)

\* the parse of the debit column raised, and the credit column was converted
C9_Witness ==
    /\ Len(runs) >= 1
    /\ runs[1].caught = <<[col |-> DEBIT, at |-> "parse"]>>
    /\ HasCol(raw, DEBIT)
    /\ \E j \in RowNumbers(runs[1].df) :
           \E p \in ColPositions(runs[1].df, CREDIT) :
               runs[1].df.rows[j].cells[p] = Num(20000)

(***************************************************************************)
(* Properties of the judge call and of the report pipeline.                *)
(***************************************************************************)
\* get_judge_evaluation has ended, by returning or by raising
JudgeEnded == judge.result \in {"returned", "raised"}

\* the service cannot be reached at one attempt: the probe or the call fails
Unreachable(o) == o \in {"down", "gen_fail"}

FallbackKinds == {"unavailable", "error"}

\* C5 as stated: with the service unreachable at every attempt, the judge
\* call makes exactly 3 attempts, sleeps the retry delay between consecutive
\* attempts, returns the fallback text and never raises
C5_ThreeAttemptsThenFallback ==
    (JudgeEnded /\ \A i \in 1..max_retries : Unreachable(service.judge[i])) =>
        /\ judge.result = "returned"
        /\ Len(judge.log) = max_retries
        /\ judge.slept = (max_retries - 1) * retry_delay
        /\ evaluation.kind \in FallbackKinds

\* C6 as stated: with a failure at attempt 1 and a success at attempt 2, the
\* judge call returns the text generated by attempt 2, one retry delay after
\* the first attempt
C6_SecondAttemptResultReturned ==
    (JudgeEnded /\ service.judge[1] # "ok" /\ service.judge[2] = "ok") =>
        /\ judge.result = "returned"
        /\ evaluation = Generated("judge", 2, judge.insights.kind)
        /\ judge.slept >= retry_delay

\* the report says that there is no data
StatesNoData ==
    \E i \in 1..Len(doc) : doc[i] = Section("structure", "warning")

\* C7 as stated: for a ledger without rows generate_report never raises,
\* whatever the service does, and the report it returns says there is no data
C7_EmptyLedgerReportCompletes ==
    IsEmpty(df) =>
        /\ outcome # "raised"
        /\ outcome = "returned" => StatesNoData

SectionOrder == <<"header", "structure", "visualizations", "insights", "review">>

SectionsWritten == [i \in 1..Len(doc) |-> doc[i].section]

\* C10: the sections are written in the order header, structure analysis,
\* visualizations, narrative, judge review, each once, a completed run has
\* written all five, and the judge call starts only when the narrative call
\* has returned, with the text it returned as its argument
C10_SectionsInOrderJudgeAfterNarrative ==
    /\ Len(doc) <= Len(SectionOrder)
    /\ SectionsWritten = SubSeq(SectionOrder, 1, Len(doc))
    /\ outcome = "returned" => Len(doc) = Len(SectionOrder)
    /\ judge.result # "idle" =>
           /\ insights # None
           /\ judge.insights = insights
           /\ \E i \in 1..Len(doc) : doc[i] = Section("insights", insights.kind)
    /\ \A i \in 1..Len(doc) :
           doc[i].section = "review" =>
               (judge.result = "returned" /\ doc[i].body = evaluation.kind)

\* a run over a ledger with rows completed with a generated narrative and a
\* generated review of that narrative
C10_Witness ==
    /\ outcome = "returned"
    /\ ~IsEmpty(df)
    /\ insights = Generated("llm", 1, "summary")
    /\ evaluation = Generated("judge", 1, "generated")
    /\ Len(doc) = Len(SectionOrder)

\* the attempts of the judge call that were followed by another attempt
FollowedAttempts == {i \in 1..Len(judge.log) : i < Len(judge.log)}

NoDateColumn == ~IsEmpty(df) /\ ~HasCol(df, DATE)

\* the position of the call of analyze_structure in generate_report
AnalyzeIndex ==
    CHOOSE i \in 1..Len(Statements) : Statements[i] = "analyze_structure"

\* C12: for a ledger with rows and no date column, analyze_structure returns
\* no summary (the local analysis is never bound and the structure section is
\* never written), generate_report never gets past that call and never
\* returns a report path: the call ends the run in failure
C12_NoDateColumnFailsAnalysis ==
    NoDateColumn =>
        /\ analysis = "none"
        /\ pc <= AnalyzeIndex
        /\ \A i \in 1..Len(doc) : doc[i].section = "header"
        /\ outcome # "returned"
        /\ outcome = "raised" => pc = AnalyzeIndex
        /\ (pc = AnalyzeIndex /\ outcome = "none") =>
               AnalyzeStructure(df) = "KeyError"

\* generate_report has failed at analyze_structure on such a ledger
C12_Witness ==
    /\ NoDateColumn
    /\ outcome = "raised"
    /\ pc = AnalyzeIndex
    /\ Len(df.rows) >= 1
    /\ HasCol(df, DEBIT)

====
